---- MODULE Spec2Model ----
(***************************************************************************)
(* Review lifecycle and row-level authorization of yvr-water-fountains.    *)
(*                                                                         *)
(* The review store is the public.reviews table behind row level security. *)
(* Two migrations of the repository define it:                             *)
(*   "core"  supabase/migrations/20241015120000_core_schema.sql, the       *)
(*           schema the browser code (AppApi, forms, dashboard) writes to; *)
(*   "db"    db/schema.sql, the schema docs/db-walkthrough.md describes,   *)
(*           with the reviews_enforce_defaults insert trigger.             *)
(* A deployment runs one of them: schema is chosen in Init and never       *)
(* changes.                                                                *)
(* The columns carry the names of the core schema: author_type is          *)
(* reviewer_type in db/schema.sql, which has neither reviewed_at nor       *)
(* approved_by. Only db/schema.sql has fountains.is_active; under core the  *)
(* variable is_active stays TRUE for every fountain.                       *)
(*                                                                         *)
(* Numeric ratings are numeric(4,1): they are kept in tenths (8.5 is 85).  *)
(* Averages are numeric rounded to 2 places: they are kept in hundredths.  *)
(***************************************************************************)
EXTENDS Integers, Sequences, FiniteSets, TLC

\* ------------------------------------------------------------------ bounds
MaxReviews == 2      \* rows of public.reviews under Spec
MaxAggReviews == 3   \* rows of public.reviews under SpecAgg
MaxRegReviews == 1   \* rows of public.reviews under SpecReg
MaxTimeReviews == 2  \* rows of public.reviews under SpecTime
MaxClock == 3        \* the clock stops after this many ticks
MaxGeoReviews == 2   \* rows of public.reviews under SpecGeo
MaxFormReviews == 2  \* rows of public.reviews under SpecForm
MaxFtnReviews == 2   \* rows of public.reviews under SpecFountain

\* ------------------------------------------------------------------ values
NULL == "NULL"
OMIT == "OMIT"
NullNum == 0 - 1
OmitNum == 0 - 2

\* Time is counted in ticks of half a day from midnight UTC of day 0; a
\* timestamptz is a number of ticks, a date a number of days.
Days == 0..1
\* date::timestamptz: midnight at the start of the day
Midnight(d) == 2 * d
\* the timestamp `${date}T12:00:00Z`
Noon(d) == 2 * d + 1

Anon == "anon"
Users == {"u1", "u2"}
Actors == Users \cup {Anon}
Fountains == {"F1", "F2"}

VARIABLES
  schema,        \* "core" | "db": which migration created public.reviews
  admins,        \* public.admins: the set of user ids in the Admin Registry
  reviews,       \* public.reviews: sequence of rows, the row id is the index
  pendingShown,  \* per actor, the review ids rendered as cards on the dashboard
  last,          \* the last request sent to the store and its outcome
  page,          \* the admin page of one browser: session, state.isAdmin, panels
  now,           \* the clock: now() of the store and new Date() of the browsers
  geo,           \* FountainData of one page: cache.geojson and the last result
  is_active      \* public.fountains.is_active per fountain (db/schema.sql)

vars == <<schema, admins, reviews, pendingShown, last, page, now, geo, is_active>>

\* ------------------------------------------------------ identity and roles

\* auth.uid(): the id in the caller's JWT, null for the anon key
auth_uid(actor) == IF actor = Anon THEN NULL ELSE actor

\* public.is_admin(): exists a row of public.admins with user_id = auth.uid()
is_admin(actor) == \E a \in admins : a = auth_uid(actor)

\* ------------------------------------------------------- the reviews table

Statuses == {"pending", "approved", "rejected"}
AuthorTypes == {"public", "admin"}

\* column defaults of public.reviews, applied to omitted columns before the
\* BEFORE INSERT trigger and the checks run
ApplyDefaults(p) ==
  [p EXCEPT !.author_type = IF @ = OMIT THEN "public" ELSE @,
            !.status = IF @ = OMIT THEN "pending" ELSE @,
            !.reviewed_at = IF @ = OmitNum THEN NullNum ELSE @,
            !.visit_date = IF @ = OmitNum THEN NullNum ELSE @,
            !.created_by = IF @ = OMIT THEN NULL ELSE @]

\* db/schema.sql reviews_enforce_defaults (BEFORE INSERT trigger)
reviews_enforce_defaults(actor, new) ==
  LET n1 == IF new.created_by = NULL
            THEN [new EXCEPT !.author_type = "public",
                             !.status = "pending",
                             !.instagram_url = NULL,
                             !.instagram_image_url = NULL,
                             !.instagram_caption = NULL]
            ELSE new
      n2 == IF n1.author_type = "admin"
            THEN [n1 EXCEPT !.status = IF @ = NULL THEN "approved" ELSE @,
                            !.created_by = IF @ = NULL THEN auth_uid(actor) ELSE @]
            ELSE n1
  IN n2

\* the trigger exists only in db/schema.sql
BeforeInsert(actor, new) ==
  IF schema = "db" THEN reviews_enforce_defaults(actor, new) ELSE new

\* column constraints (not null, check) of public.reviews
RatingCheck(row) ==
  IF schema = "core"
  THEN row.rating = NullNum \/ (row.rating >= 0 /\ row.rating <= 100)
  ELSE row.rating # NullNum /\ row.rating % 10 = 0
       /\ row.rating >= 10 /\ row.rating <= 100

ConstraintsOk(row) ==
  /\ row.author_type \in AuthorTypes
  /\ row.status \in Statuses
  /\ row.fountain_id \in Fountains
  /\ RatingCheck(row)
  /\ row.created_by \in {NULL} \cup Users

\* a public insert policy that forgets the author_type condition
reviews_public_insert_NoAuthor(row) == row.status = "pending"

\* policy reviews_public_insert (core) / reviews_insert_public (db)
reviews_public_insert(row) ==
  IF schema = "core"
  THEN row.status = "pending" /\ row.author_type = "public"
  ELSE /\ row.author_type = "public"
       /\ row.instagram_url = NULL
       /\ row.instagram_image_url = NULL
       /\ row.instagram_caption = NULL

\* policy reviews_admin_insert
reviews_admin_insert(actor) == is_admin(actor)

\* permissive policies are OR-ed
InsertPolicyOk(actor, row) ==
  reviews_public_insert(row) \/ reviews_admin_insert(actor)

\* what the store makes of an insert: the row it would store and the outcome.
\* The WITH CHECK of the policies runs after the BEFORE trigger and before the
\* table constraints.
InsertRow(actor, p) ==
  LET new == BeforeInsert(actor, ApplyDefaults(p))
  IN IF ~InsertPolicyOk(actor, new) THEN [result |-> "rls_error", row |-> new]
     ELSE IF ~ConstraintsOk(new) THEN [result |-> "constraint_error", row |-> new]
     ELSE [result |-> "ok", row |-> new]

\* History kept beside each row (these are not columns of the table):
\*   g_creator   "admin" | "nonadmin" | "service": whether the inserting caller
\*               was in public.admins when the row was inserted
\*   g_approver  who last set status = 'approved', "none" when nobody did
ActorKind(actor) == IF is_admin(actor) THEN "admin" ELSE "nonadmin"

Stored(row, kind) ==
  [fountain_id |-> row.fountain_id,
   author_type |-> row.author_type,
   status |-> row.status,
   rating |-> row.rating,
   instagram_url |-> row.instagram_url,
   instagram_image_url |-> row.instagram_image_url,
   instagram_caption |-> row.instagram_caption,
   reviewed_at |-> row.reviewed_at,
   visit_date |-> row.visit_date,
   created_at |-> now,
   approved_by |-> NULL,
   created_by |-> row.created_by,
   g_creator |-> kind,
   g_approver |-> IF row.status = "approved" THEN kind ELSE "none"]

HasInstagram(p) ==
  p.instagram_url # NULL \/ p.instagram_image_url # NULL \/ p.instagram_caption # NULL

\* the last request and what the caller got back
NoOp == [op |-> "none", admin |-> FALSE, anon |-> TRUE, ig |-> FALSE,
         author_type |-> OMIT, status |-> OMIT, rid |-> 0, prior |-> NULL,
         result |-> "ok", rows |-> {}, stored |-> FALSE]

Request(op, actor) ==
  [NoOp EXCEPT !.op = op, !.admin = is_admin(actor), !.anon = (actor = Anon)]

\* POST /reviews: AppApi.insertPublicReview / insertAdminReview send the
\* payload unchanged and throw when the store answers with an error
StoreInsert(actor, p) ==
  LET r == InsertRow(actor, p)
  IN /\ reviews' = IF r.result = "ok"
                   THEN Append(reviews, Stored(r.row, ActorKind(actor)))
                   ELSE reviews
     /\ last' = [Request("insert", actor) EXCEPT
                   !.ig = HasInstagram(p),
                   !.author_type = p.author_type, !.status = p.status,
                   !.rid = IF r.result = "ok" THEN Len(reviews) + 1 ELSE 0,
                   !.result = r.result, !.stored = (r.result = "ok")]
     /\ UNCHANGED <<schema, admins, pendingShown, page, now, geo, is_active>>

\* a select policy that shows every row to everybody
reviews_select_public_All(row) == TRUE

\* policies reviews_select_public and reviews_admin_select (OR-ed). The
\* migrations grant no table privilege the dashboard's own select and update
\* need, so the roles anon and authenticated hold the privileges Supabase
\* gives them by default on the tables of schema public: a request is never
\* refused for want of a privilege, the policies alone decide.
reviews_select_public(row) == row.status = "approved"
reviews_admin_select(actor) == is_admin(actor)
SelectPolicyOk(actor, row) ==
  reviews_select_public(row) \/ reviews_admin_select(actor)

\* AppApi.fetchReviewsByStatus: select ... from reviews where status = $1
fetchReviewsByStatus(actor, status) ==
  {i \in 1..Len(reviews) :
     reviews[i].status = status /\ SelectPolicyOk(actor, reviews[i])}

\* an order by created_at that is descending
CreatedOrder_Desc(i, j) == reviews[i].created_at >= reviews[j].created_at

\* .order('created_at', { ascending: true }): row i may come before row j
CreatedOrder(i, j) == reviews[i].created_at <= reviews[j].created_at

\* the lists fetchReviewsByStatus may return: the selected rows, each once,
\* in the order of the query (rows with equal created_at in either order)
fetchReviewsByStatusList(actor, status) ==
  LET rows == fetchReviewsByStatus(actor, status)
  IN {q \in [1..Cardinality(rows) -> rows] :
        /\ \A i, j \in DOMAIN q : i # j => q[i] # q[j]
        /\ \A i, j \in DOMAIN q : i < j => CreatedOrder(q[i], q[j])}

\* AppApi.countReviewsByStatus: select count(*) from reviews where status = $1
\* and, when options.since is given, reviewed_at >= since (a null reviewed_at
\* does not pass the comparison); since = NullNum stands for no since
countReviewsByStatus(actor, status, since) ==
  Cardinality({i \in fetchReviewsByStatus(actor, status) :
                 since = NullNum
                 \/ (reviews[i].reviewed_at # NullNum
                     /\ reviews[i].reviewed_at >= since)})

\* loadCounts: todayStart.setHours(0, 0, 0, 0), the start of the current day
todayStart == Midnight(now \div 2)

\* policy reviews_admin_update: USING is_admin() WITH CHECK is_admin().
\* A row the USING clause hides is not updated and no error is raised.
reviews_admin_update(actor) == is_admin(actor)

\* AppApi.updateReviewStatus: update reviews set status = $2, ...extra
\* where id = $1; there is no condition on the current status
UpdateRow(row, status, extra, kind) ==
  [row EXCEPT !.status = status,
              !.reviewed_at = IF "reviewed_at" \in DOMAIN extra
                              THEN extra.reviewed_at ELSE @,
              !.g_approver = IF status = "approved" THEN kind ELSE @]

\* a status update that deletes the row it rejects
updateReviewStatus_DeleteRejected(actor, rid, status, extra) ==
  LET hit == rid \in 1..Len(reviews) /\ reviews_admin_update(actor)
  IN /\ reviews' = IF hit /\ status = "rejected"
                   THEN SubSeq(reviews, 1, rid - 1)
                          \o SubSeq(reviews, rid + 1, Len(reviews))
                   ELSE IF hit
                   THEN [reviews EXCEPT ![rid] =
                           UpdateRow(@, status, extra, ActorKind(actor))]
                   ELSE reviews
     /\ last' = [Request("update", actor) EXCEPT
                   !.status = status, !.rid = rid, !.result = "ok",
                   !.stored = hit]

updateReviewStatus(actor, rid, status, extra) ==
  LET hit == rid \in 1..Len(reviews) /\ reviews_admin_update(actor)
  IN /\ reviews' = IF hit
                   THEN [reviews EXCEPT ![rid] =
                           UpdateRow(@, status, extra, ActorKind(actor))]
                   ELSE reviews
     /\ last' = [Request("update", actor) EXCEPT
                   !.status = status, !.rid = rid,
                   !.prior = IF rid \in 1..Len(reviews)
                             THEN reviews[rid].status ELSE NULL,
                   !.result = "ok", !.stored = hit]

\* ------------------------------------------------------------ inputs
FormRatings == {10, 20}
Ig == {NULL, "ig"}

\* the payload submitReview builds (unnamed/part_007): no instagram keys;
\* validateForm requires the visit date
PublicPayload(f, rating, visit) ==
  [fountain_id |-> f, author_type |-> "public", status |-> "pending",
   rating |-> rating, instagram_url |-> NULL, instagram_image_url |-> NULL,
   instagram_caption |-> NULL, reviewed_at |-> OmitNum, visit_date |-> visit,
   created_by |-> OMIT]

\* the payload submitAdminReview builds (docs/js/admin-review-form.js):
\* validateAdminForm requires the instagram url and the visit date, so
\* an admin payload stamped with the time of the submission
AdminPayload_Now(f, rating, caption, visit) ==
  [fountain_id |-> f, author_type |-> "admin", status |-> "approved",
   rating |-> rating, instagram_url |-> "ig", instagram_image_url |-> "ig",
   instagram_caption |-> caption, reviewed_at |-> now,
   visit_date |-> visit, created_by |-> OMIT]

\* instagram_url is always sent and reviewed_at is noon UTC of the visit date
\* (the branch new Date() needs an empty visit date, which is refused)
AdminPayload(f, rating, caption, visit) ==
  [fountain_id |-> f, author_type |-> "admin", status |-> "approved",
   rating |-> rating, instagram_url |-> "ig", instagram_image_url |-> "ig",
   instagram_caption |-> caption,
   reviewed_at |-> IF visit # NullNum THEN Noon(visit) ELSE now,
   visit_date |-> visit, created_by |-> OMIT]

\* payloads a caller who is not an admin can craft against the REST endpoint
\* (the visit date is the one the form sends; db/schema.sql has no such column)
RawPayloads(F, R) ==
  [fountain_id : F,
   author_type : {OMIT, "public", "admin"},
   status : {OMIT, NULL, "pending", "approved"},
   rating : R,
   instagram_url : Ig,
   instagram_image_url : {NULL},
   instagram_caption : {NULL},
   reviewed_at : {OmitNum},
   visit_date : IF schema = "db" THEN {OmitNum} ELSE {0},
   created_by : IF schema = "db" THEN {OMIT} \cup Users ELSE {OMIT}]

\* inserts docs/db-walkthrough.md describes for an authenticated admin
AdminDbPayloads(actor, F, R) ==
  [fountain_id : F,
   author_type : {"admin"},
   status : {OMIT, "approved"},
   rating : R,
   instagram_url : Ig,
   instagram_image_url : {NULL},
   instagram_caption : {NULL},
   reviewed_at : {OmitNum},
   visit_date : {OmitNum},
   created_by : {OMIT, actor}]

\* ------------------------------------------------------------ actions

\* public review form, setupFormSubmission -> submitReview; the shared client
\* persists the session, so the caller may be signed in
SubmitReview(actor, f, rating, visit) ==
  /\ schema = "core"
  /\ StoreInsert(actor, PublicPayload(f, rating, visit))

\* admin review form, setupReviewForm -> submitAdminReview; the handler
\* proceeds only when verifyAdminAccess found the user in public.admins
SubmitAdminReview(actor, f, rating, caption, visit) ==
  /\ schema = "core"
  /\ is_admin(actor)
  /\ visit # NullNum
  /\ StoreInsert(actor, AdminPayload(f, rating, caption, visit))

\* a hand-made insert request by a caller who is not an admin
RawInsert(actor, p) ==
  /\ ~is_admin(actor)
  /\ StoreInsert(actor, p)

\* an insert by an authenticated admin against db/schema.sql
AdminDbInsert(actor, p) ==
  /\ schema = "db"
  /\ is_admin(actor)
  /\ StoreInsert(actor, p)

\* scripts/backfill_supabase.mjs main: the service role bypasses the policies;
\* buildReviewRecords takes reviewed_at from the visit date of the csv row
Backfill(f, rating, url, visit) ==
  LET row == [fountain_id |-> f, author_type |-> "admin", status |-> "approved",
              rating |-> rating, instagram_url |-> url,
              instagram_image_url |-> url, instagram_caption |-> url,
              reviewed_at |-> IF visit # NullNum THEN Midnight(visit) ELSE now,
              visit_date |-> visit, created_by |-> NULL]
  IN /\ schema = "core"
     /\ ConstraintsOk(row)
     /\ reviews' = Append(reviews, Stored(row, "service"))
     /\ last' = NoOp
     /\ UNCHANGED <<schema, admins, pendingShown, page, now, geo, is_active>>

\* moderation dashboard, verifyAdmin -> loadDashboard -> loadPendingReviews:
\* runs only when the user's row of public.admins was found. The dashboard
\* names the columns of the core schema, so it renders cards only there.
LoadDashboard(actor) ==
  /\ schema = "core"
  /\ is_admin(actor)
  /\ pendingShown' = [pendingShown EXCEPT ![actor] =
                        fetchReviewsByStatus(actor, "pending")]
  /\ UNCHANGED <<schema, admins, reviews, last, page, now, geo, is_active>>

\* moderation dashboard, click on approve / reject of a rendered card:
\* updateReviewStatus(review.id, status, button), then loadDashboard
Moderate(actor, rid, status) ==
  /\ rid \in pendingShown[actor]
  /\ status \in {"approved", "rejected"}
  /\ updateReviewStatus(actor, rid, status,
       IF status = "approved" THEN [reviewed_at |-> now] ELSE <<>>)
  /\ pendingShown' = [pendingShown EXCEPT ![actor] =
       {i \in 1..Len(reviews') :
          reviews'[i].status = "pending" /\ SelectPolicyOk(actor, reviews'[i])}]
  /\ UNCHANGED <<schema, admins, page, now, geo, is_active>>

\* a hand-made PATCH /reviews?id=eq.rid by a caller who is not an admin
RawUpdate(actor, rid, status) ==
  /\ ~is_admin(actor)
  /\ updateReviewStatus(actor, rid, status, <<>>)
  /\ UNCHANGED <<schema, admins, pendingShown, page, now, geo, is_active>>

\* a hand-made GET /reviews?status=eq.s (fetchReviewsByStatus from a console)
RawSelect(actor, status) ==
  /\ last' = [Request("select", actor) EXCEPT
                !.status = status, !.rows = fetchReviewsByStatus(actor, status)]
  /\ UNCHANGED <<schema, admins, reviews, pendingShown, page, now, geo, is_active>>

\* policy admins_admin_manage: insert into public.admins
AddAdmin(actor, u) ==
  /\ is_admin(actor)
  /\ u \notin admins
  /\ admins' = admins \cup {u}
  /\ UNCHANGED <<schema, reviews, pendingShown, last, page, now, geo, is_active>>

\* ------------------------------------------------- the public review form

\* what a visitor can type into the overall rating field
RatingInputs == {"", "abc", "0", "1", "10", "11"}

\* toNumeric (unnamed/part_007): null for '', undefined and null, else
\* Number.parseFloat, and null when that is not finite; in tenths
toNumeric(value) ==
  CASE value = "" -> NullNum
    [] value = "0" -> 0
    [] value = "1" -> 10
    [] value = "10" -> 100
    [] value = "11" -> 110
    [] OTHER -> NullNum

\* collectFormData: the fountain picked from the list ("" when none is),
\* the trimmed name, the visit date (NullNum when the field is empty) and the
\* text of the overall rating
FormData ==
  [fountain : {"", "F1"}, reviewerName : {"", "ann"},
   visitDate : Days \cup {NullNum}, overallRating : RatingInputs]

\* validateForm: every one of the four fields must be filled
validateForm(data) ==
  /\ data.fountain # ""
  /\ data.reviewerName # ""
  /\ data.visitDate # NullNum
  /\ data.overallRating # ""

\* setupFormSubmission: collectFormData, validateForm, submitReview
SubmitForm(actor, data) ==
  /\ validateForm(data)
  /\ SubmitReview(actor, data.fountain, toNumeric(data.overallRating),
                  data.visitDate)

\* what the caller of a submission with payload p observes: the alert of the
\* page, and the error of the store, which insertPublicReview throws as it
\* is and the catch block writes to the console
SubmitOutcome(actor, p) ==
  LET r == InsertRow(actor, p)
  IN [alert |-> IF r.result = "ok" THEN "thanks" ELSE "something_went_wrong",
      error |-> r.result]

\* ------------------------------------------------------ the admin registry

\* a manage policy whose check sees the row being inserted
admins_admin_manage_NewRow(actor, u) == is_admin(actor) \/ u = auth_uid(actor)

\* policy admins_admin_manage (core) / admins_manage_admin (db): for all,
\* USING is_admin() WITH CHECK is_admin(). is_admin() is stable, so it reads
\* public.admins as it was before the statement.
admins_admin_manage(actor, u) == is_admin(actor)

\* insert into public.admins (user_id) values (u)
InsertAdmin(actor, u) ==
  LET result == IF ~admins_admin_manage(actor, u) THEN "rls_error"
                ELSE IF u \in admins THEN "constraint_error"
                ELSE "ok"
  IN /\ admins' = IF result = "ok" THEN admins \cup {u} ELSE admins
     /\ last' = [Request("admins_insert", actor) EXCEPT
                   !.result = result, !.stored = (result = "ok")]
     /\ UNCHANGED <<schema, reviews, pendingShown, page, now, geo, is_active>>

\* delete from public.admins where user_id = u: a row the USING clause hides
\* is not deleted and no error is raised
DeleteAdmin(actor, u) ==
  LET hit == u \in admins /\ admins_admin_manage(actor, u)
  IN /\ admins' = IF hit THEN admins \ {u} ELSE admins
     /\ last' = [Request("admins_delete", actor) EXCEPT
                   !.result = "ok", !.stored = hit]
     /\ UNCHANGED <<schema, reviews, pendingShown, page, now, geo, is_active>>

\* ------------------------------------------------- the admin page (sign in)

\* the page after init() found no session: applySession(null)
SignedOut ==
  [session |-> NULL, isAdmin |-> FALSE, content |-> FALSE,
   msg |-> "sign_in_prompt", lookups |-> {}]

\* a profile lookup that answers with a row for everybody
fetchAdminProfile_Any(u) == "row"

\* AppApi.fetchAdminProfile: select user_id, display_name from admins where
\* user_id = $1, maybeSingle. The request carries the user's own token, and
\* the policy on public.admins hides every row from a caller who is not an
\* admin: the answer is the row, or null without an error.
fetchAdminProfile(u) ==
  IF u \in admins /\ admins_admin_manage(u, u) THEN "row" ELSE NULL

\* applySession(session) for a session: state.isAdmin = false, the login form
\* is hidden, verifyAdminAccess(session.user) starts its lookup
applySession(pg, u) ==
  [pg EXCEPT !.session = u, !.isAdmin = FALSE, !.lookups = @ \cup {u}]

\* login form submit with credentials the identity verifier rejects
SignInFailed ==
  /\ schema = "core"
  /\ page.session = NULL
  /\ page' = [page EXCEPT !.msg = "sign_in_failed"]
  /\ UNCHANGED <<schema, admins, reviews, pendingShown, last, now, geo, is_active>>

\* login form submit with valid credentials of user u: onAuthStateChange
\* runs applySession, then the handler shows 'verifying admin access'
SignIn(u) ==
  /\ schema = "core"
  /\ page.session = NULL
  /\ page' = [applySession(page, u) EXCEPT !.msg = "verifying"]
  /\ UNCHANGED <<schema, admins, reviews, pendingShown, last, now, geo, is_active>>

\* onAuthStateChange for the session in place (token refreshed, tab focused)
SessionEvent ==
  /\ page.session # NULL
  /\ page' = applySession(page, page.session)
  /\ UNCHANGED <<schema, admins, reviews, pendingShown, last, now, geo, is_active>>

\* logout button: signOut, then onAuthStateChange runs applySession(null)
SignOut ==
  /\ page.session # NULL
  /\ page' = [page EXCEPT !.session = NULL, !.isAdmin = FALSE,
                           !.content = FALSE, !.msg = "sign_in_prompt"]
  /\ UNCHANGED <<schema, admins, reviews, pendingShown, last, now, geo, is_active>>

\* verifyAdminAccess(user) resumes with the answer of its lookup
VerifyReturn(u) ==
  /\ u \in page.lookups
  /\ page' = IF fetchAdminProfile(u) = NULL
             THEN [page EXCEPT !.lookups = @ \ {u}, !.msg = "not_authorized",
                               !.content = FALSE]
             ELSE [page EXCEPT !.lookups = @ \ {u}, !.msg = "signed_in_as",
                               !.content = TRUE, !.isAdmin = TRUE]
  /\ UNCHANGED <<schema, admins, reviews, pendingShown, last, now, geo, is_active>>

\* time passes
Tick ==
  /\ now < MaxClock
  /\ now' = now + 1
  /\ UNCHANGED <<schema, admins, reviews, pendingShown, last, page, geo, is_active>>

\* ------------------------------------------------------ the fountains table

\* an id that no row of public.fountains has
NoFountain == "F9"

\* policy fountains_select_public: using (true) in core,
\* using (coalesce(is_active, true)) in db/schema.sql
fountains_select_public(f) ==
  IF schema = "core" THEN TRUE ELSE is_active[f]

\* policy fountains_admin_manage (core) / fountains_manage_admin (db)
fountains_manage_admin(actor) == is_admin(actor)

\* select id from public.fountains as the caller: the policies are OR-ed
SelectFountains(actor) ==
  {f \in Fountains : fountains_select_public(f) \/ fountains_manage_admin(actor)}

\* update public.fountains set is_active = b where id = f, by an admin
\* against db/schema.sql (the core table has no such column)
SetActive(actor, f, b) ==
  /\ schema = "db"
  /\ fountains_manage_admin(actor)
  /\ is_active[f] # b
  /\ is_active' = [is_active EXCEPT ![f] = b]
  /\ UNCHANGED <<schema, admins, reviews, pendingShown, last, page, now, geo>>

\* the name column: the fountains are named after their ids, F1 before F2
NameBefore(f, g) == (f = g) \/ (f = "F1")

\* the rows of fountain_overview_view. The view selects from public.fountains
\* without a where clause and is not declared security_invoker, so it reads
\* the table with the rights of its owner, who owns the table as well and is
\* not subject to its policies: every fountain is a row, for every caller.
fountain_overview_view == Fountains

\* AppApi.fetchFountainOverview: select * from fountain_overview_view
\* order by name asc; the result as a sequence of fountain ids
fetchFountainOverview ==
  CHOOSE q \in UNION {[1..n -> fountain_overview_view] : n \in 0..Cardinality(Fountains)} :
    /\ {q[i] : i \in DOMAIN q} = fountain_overview_view
    /\ Len(q) = Cardinality(fountain_overview_view)
    /\ \A i, j \in DOMAIN q : i <= j => NameBefore(q[i], q[j])

\* ------------------------------------------------------ aggregate views

RECURSIVE SumRating(_)
SumRating(s) ==
  IF s = <<>> THEN 0
  ELSE (IF Head(s).rating = NullNum THEN 0 ELSE Head(s).rating) + SumRating(Tail(s))

HasRating(r) == r.rating # NullNum
\* a filter that matches no author type
IsAdminAuthored_None(r) == FALSE
IsAdminAuthored(r) == r.author_type = "admin"
IsApproved(r) == r.status = "approved"

\* an average that reads 0 when there is no rating
RoundedAvg_Zero(s) ==
  LET n == Len(SelectSeq(s, HasRating))
  IN IF n = 0 THEN 0
     ELSE (20 * SumRating(s) + n) \div (2 * n)

\* round(avg(rating)::numeric, 2): avg skips null ratings and is null when
\* there is none; the result is in hundredths, ties rounded away from zero
RoundedAvg(s) ==
  LET n == Len(SelectSeq(s, HasRating))
  IN IF n = 0 THEN NullNum
     ELSE (20 * SumRating(s) + n) \div (2 * n)

\* a join that forgets the status condition
RatingsJoinAll(f) ==
  LET On(r) == r.fountain_id = f
  IN SelectSeq(reviews, On)

\* fountain_ratings_view (core): fountains f left join reviews r
\*   on r.fountain_id = f.id and r.status = 'approved'

RatingsJoin(f) ==
  LET On(r) == r.fountain_id = f /\ r.status = "approved"
  IN SelectSeq(reviews, On)

fountain_ratings_view(f) ==
  LET j == RatingsJoin(f)
  IN [average_rating |-> RoundedAvg(j),
      approved_review_count |-> Len(SelectSeq(j, IsApproved)),
      admin_review_count |->
        LET Both(r) == IsApproved(r) /\ IsAdminAuthored(r)
        IN Len(SelectSeq(j, Both))]

\* approved_reviews and fountain_review_stats (db/migrate_existing.sql): one
\* row per fountain that has an approved review; fountains_public left joins
\* it, so a fountain without approved reviews reads null in all three columns
approved_reviews == SelectSeq(reviews, IsApproved)

fountain_review_stats(f) ==
  LET On(r) == r.fountain_id = f
      g == SelectSeq(approved_reviews, On)
  IN IF g = <<>>
     THEN [average_rating |-> NullNum, approved_review_count |-> NullNum,
           admin_review_count |-> NullNum]
     ELSE [average_rating |-> RoundedAvg(g),
           approved_review_count |-> Len(g),
           admin_review_count |-> Len(SelectSeq(g, IsAdminAuthored))]

\* the sort key of the latest review: coalesce(reviewed_at,
\* visit_date::timestamptz, created_at) in fountain_latest_review_view (core),
\* created_at in fountain_latest_review (db/migrate_existing.sql)
LatestKey(r) ==
  IF schema = "db" THEN r.created_at
  ELSE IF r.reviewed_at # NullNum THEN r.reviewed_at
  ELSE IF r.visit_date # NullNum THEN Midnight(r.visit_date)
  ELSE r.created_at

\* a latest review chosen among the reviews of every status
fountain_latest_review_view_AnyStatus(f) ==
  LET all == {i \in 1..Len(reviews) : reviews[i].fountain_id = f}
  IN {i \in all : \A j \in all : LatestKey(reviews[j]) <= LatestKey(reviews[i])}

\* left join lateral (select ... where fountain_id = f and status = 'approved'
\* order by key desc limit 1): the ids of the rows the view may return. The
\* order by names no second key, so any of the rows that share the greatest key
\* may come first; the set is empty when f has no approved review.
fountain_latest_review_view(f) ==
  LET approved == {i \in 1..Len(reviews) :
                     reviews[i].fountain_id = f /\ reviews[i].status = "approved"}
  IN {i \in approved :
        \A j \in approved : LatestKey(reviews[j]) <= LatestKey(reviews[i])}

\* the aggregate columns of fountain_overview_view for fountain f
Overview(f) ==
  IF schema = "core" THEN fountain_ratings_view(f) ELSE fountain_review_stats(f)

\* FountainData buildProperties (unnamed/part_005): avg_rating is
\* parseFloat(average_rating) and stays null when the column is null;
\* rating_count and admin_review_count are `count || 0`
buildProperties(record) ==
  [avg_rating |-> record.average_rating,
   rating_count |-> IF record.approved_review_count = NullNum THEN 0
                    ELSE record.approved_review_count,
   admin_review_count |-> IF record.admin_review_count = NullNum THEN 0
                          ELSE record.admin_review_count]

\* ------------------------------------------------------ fountain data

\* FountainData as a page finds it when its script has just run:
\* cache = { geojson: null }; the sets hold at most one collection. seq flips
\* with every call of fetchGeoData and reach keeps whether the store could be
\* read at the time of the last call (neither is a field of the page).
NoGeo == [cache |-> {}, result |-> {}, seq |-> 0, reach |-> "none"]

\* the properties of the features in the bundled geojson file, which no write
\* to the store changes
BundledGeo ==
  [f \in Fountains |->
     [avg_rating |-> NullNum, rating_count |-> 0, admin_review_count |-> 0]]

\* select * from fountain_overview_view, one feature per record
loadFromSupabase ==
  [source |-> "supabase",
   data |-> [f \in Fountains |-> buildProperties(Overview(f))]]

loadFromGeojson == [source |-> "geojson", data |-> BundledGeo]

\* a cache that is never taken as filled
CacheHit_Never(c) == FALSE

\* if (cache.geojson)
CacheHit(c) == c # {}

\* FountainData.fetchGeoData(): the cached collection when there is one;
\* otherwise the overview read when the client exists and the read succeeds
\* (reach = "ok"), the bundled file when not; either result is cached
fetchGeoData(reach) ==
  IF CacheHit(geo.cache)
  THEN [geo EXCEPT !.result = geo.cache, !.seq = 1 - @, !.reach = reach]
  ELSE LET g == IF reach = "ok" THEN loadFromSupabase ELSE loadFromGeojson
       IN [cache |-> {g}, result |-> {g}, seq |-> 1 - geo.seq, reach |-> reach]

\* a page reads the fountain data (loadFountains, loadFountainMap)
FetchGeoData(reach) ==
  /\ geo' = fetchGeoData(reach)
  /\ UNCHANGED <<schema, admins, reviews, pendingShown, last, page, now, is_active>>

\* the page is loaded again: its scripts run anew and the cache is empty
PageLoad ==
  /\ geo.cache # {}
  /\ geo' = [geo EXCEPT !.cache = {}, !.result = {}]
  /\ UNCHANGED <<schema, admins, reviews, pendingShown, last, page, now, is_active>>

Init ==
  /\ schema \in {"core", "db"}
  /\ admins = {"u1"}
  /\ reviews = <<>>
  /\ pendingShown = [a \in Actors |-> {}]
  /\ last = NoOp
  /\ page = SignedOut
  /\ now = 0
  /\ geo = NoGeo
  /\ is_active = [f \in Fountains |-> TRUE]

Room(n) == Len(reviews) < n

AuthFountains == {"F1"}
AuthRatings == {10}

Next ==
  \/ \E a \in Actors : Room(MaxReviews) /\ SubmitReview(a, "F1", 10, 0)
  \/ \E a \in Users, c \in Ig : Room(MaxReviews) /\ SubmitAdminReview(a, "F1", 10, c, 0)
  \/ \E a \in Actors : \E p \in RawPayloads(AuthFountains, AuthRatings) :
        Room(MaxReviews) /\ RawInsert(a, p)
  \/ \E a \in Users : \E p \in AdminDbPayloads(a, AuthFountains, AuthRatings) :
        Room(MaxReviews) /\ AdminDbInsert(a, p)
  \/ \E url \in Ig : Room(MaxReviews) /\ Backfill("F1", 10, url, 0)
  \/ \E a \in Users : LoadDashboard(a)
  \/ \E a \in Users, rid \in 1..MaxReviews, s \in {"approved", "rejected"} :
        Moderate(a, rid, s)
  \/ \E a \in Actors, rid \in 1..MaxReviews, s \in {"approved", "rejected"} :
        RawUpdate(a, rid, s)
  \/ \E a \in Actors, s \in {"pending", "approved"} : RawSelect(a, s)
  \/ \E a \in Users, u \in Users : AddAdmin(a, u)

Spec == Init /\ [][Next]_vars

\* The same operations with the inputs that matter to the aggregates: two
\* fountains, several ratings, one admin, no instagram variety.
AggRawPayloads ==
  [fountain_id : Fountains, author_type : {OMIT}, status : {OMIT},
   rating : {NullNum}, instagram_url : {NULL}, instagram_image_url : {NULL},
   instagram_caption : {NULL}, reviewed_at : {OmitNum}, visit_date : {OmitNum},
   created_by : IF schema = "db" THEN {"u2"} ELSE {OMIT}]

AggAdminDbPayloads ==
  [fountain_id : Fountains, author_type : {"admin"}, status : {"approved"},
   rating : FormRatings, instagram_url : {NULL}, instagram_image_url : {NULL},
   instagram_caption : {NULL}, reviewed_at : {OmitNum}, visit_date : {OmitNum},
   created_by : {"u1"}]

NextAgg ==
  \/ \E f \in Fountains, r \in FormRatings :
        Room(MaxAggReviews) /\ SubmitReview(Anon, f, r, 0)
  \/ \E f \in Fountains, r \in FormRatings :
        Room(MaxAggReviews) /\ SubmitAdminReview("u1", f, r, NULL, 0)
  \/ \E p \in AggRawPayloads : Room(MaxAggReviews) /\ RawInsert(Anon, p)
  \/ \E p \in AggAdminDbPayloads : Room(MaxAggReviews) /\ AdminDbInsert("u1", p)
  \/ LoadDashboard("u1")
  \/ \E rid \in 1..MaxAggReviews, s \in {"approved", "rejected"} :
        Moderate("u1", rid, s)

SpecAgg == Init /\ [][NextAgg]_vars

\* Sign in, sign out and the profile lookups of the admin page, while the
\* registry changes under it.
NextAuth ==
  \/ SignInFailed
  \/ \E u \in Users : SignIn(u)
  \/ SessionEvent
  \/ SignOut
  \/ \E u \in Users : VerifyReturn(u)
  \/ \E a \in Actors, u \in Users : InsertAdmin(a, u)
  \/ \E a \in Actors, u \in Users : DeleteAdmin(a, u)

SpecAuth == Init /\ [][NextAuth]_vars

\* Every request that reaches public.admins, beside the operations on reviews
\* and the sign in of the admin page.
RegRawPayloads ==
  {p \in RawPayloads(AuthFountains, AuthRatings) :
     p.instagram_url = NULL /\ p.status \in {OMIT, "approved"}}

NextReg ==
  \/ \E a \in Actors, u \in Users : InsertAdmin(a, u)
  \/ \E a \in Actors, u \in Users : DeleteAdmin(a, u)
  \/ \E u \in Users : SignIn(u)
  \/ SignOut
  \/ \E u \in Users : VerifyReturn(u)
  \/ \E a \in Actors : Room(MaxRegReviews) /\ SubmitReview(a, "F1", 10, 0)
  \/ \E a \in Users : Room(MaxRegReviews) /\ SubmitAdminReview(a, "F1", 10, NULL, 0)
  \/ \E a \in Actors : \E p \in RegRawPayloads :
        Room(MaxRegReviews) /\ RawInsert(a, p)
  \/ \E a \in Users : \E p \in AdminDbPayloads(a, AuthFountains, AuthRatings) :
        Room(MaxRegReviews) /\ AdminDbInsert(a, p)
  \/ \E a \in Users : LoadDashboard(a)
  \/ \E a \in Users, s \in {"approved", "rejected"} : Moderate(a, 1, s)
  \/ \E a \in Actors, s \in {"approved", "rejected"} : RawUpdate(a, 1, s)

SpecReg == Init /\ [][NextReg]_vars

\* Reviews written at different times for different visit dates.
NextTime ==
  \/ Tick
  \/ \E v \in Days : Room(MaxTimeReviews) /\ SubmitReview(Anon, "F1", 10, v)
  \/ \E v \in Days : Room(MaxTimeReviews) /\ SubmitAdminReview("u1", "F1", 10, NULL, v)
  \/ \E p \in AggAdminDbPayloads :
        p.fountain_id = "F1" /\ p.rating = 10
        /\ Room(MaxTimeReviews) /\ AdminDbInsert("u1", p)
  \/ \E v \in Days \cup {NullNum} :
        Room(MaxTimeReviews) /\ Backfill("F1", 10, NULL, v)
  \/ LoadDashboard("u1")
  \/ \E rid \in 1..MaxTimeReviews, s \in {"approved", "rejected"} :
        Moderate("u1", rid, s)

SpecTime == Init /\ [][NextTime]_vars

\* A page that reads the fountain data while reviews are submitted and
\* moderated on the dashboard.
NextGeo ==
  \/ \E f \in Fountains : Room(MaxGeoReviews) /\ SubmitReview(Anon, f, 10, 0)
  \/ LoadDashboard("u1")
  \/ \E rid \in 1..MaxGeoReviews, s \in {"approved", "rejected"} :
        Moderate("u1", rid, s)
  \/ \E reach \in {"ok", "failed"} : FetchGeoData(reach)
  \/ PageLoad

SpecGeo == Init /\ [][NextGeo]_vars

\* The public form filled in by visitors on different days.
NextForm ==
  \/ Tick
  \/ \E data \in FormData : Room(MaxFormReviews) /\ SubmitForm(Anon, data)
  \/ LoadDashboard("u1")
  \/ \E rid \in 1..MaxFormReviews, s \in {"approved", "rejected"} :
        Moderate("u1", rid, s)

SpecForm == Init /\ [][NextForm]_vars

\* Fountains that are switched off and on while reviews are written for
\* them, and for an id that is no fountain.
ProbePayloads ==
  [fountain_id : {"F1", NoFountain}, author_type : {OMIT}, status : {OMIT, "approved"},
   rating : {10}, instagram_url : {NULL}, instagram_image_url : {NULL},
   instagram_caption : {NULL}, reviewed_at : {OmitNum},
   visit_date : IF schema = "db" THEN {OmitNum} ELSE {0},
   created_by : {OMIT}]

NextFountain ==
  \/ \E f \in Fountains, b \in BOOLEAN : SetActive("u1", f, b)
  \/ \E f \in Fountains : Room(MaxFtnReviews) /\ SubmitReview(Anon, f, 10, 0)
  \/ \E p \in ProbePayloads : Room(MaxFtnReviews) /\ RawInsert(Anon, p)
  \/ \E p \in AggAdminDbPayloads : Room(MaxFtnReviews) /\ AdminDbInsert("u1", p)
  \/ LoadDashboard("u1")
  \/ \E rid \in 1..MaxFtnReviews, s \in {"approved", "rejected"} :
        Moderate("u1", rid, s)

SpecFountain == Init /\ [][NextFountain]_vars

\* ================================================================ claims

Ids == 1..Len(reviews)
Decided == {"approved", "rejected"}

\* C1: the status of every review stays in {pending, approved, rejected}, and
\* once a review is approved or rejected no later call changes its status.
C1_TerminalStatus ==
  [][\A i \in Ids :
       /\ reviews'[i].status \in Statuses
       /\ reviews[i].status \in Decided => reviews'[i].status = reviews[i].status]_vars

\* C2: of two conflicting moderation calls on the same review only the first
\* takes effect: no status update that finds the review already decided
\* overwrites it with the other decision.
C2_NoConflictingOverwrite ==
  ~(/\ last.op = "update" /\ last.stored
    /\ last.prior \in Decided /\ last.status # last.prior)

\* The fresh scan C3 compares the overview with: the approved reviews of f,
\* those of them that carry a rating, and the sum of their ratings.
ApprovedOf(f) ==
  {i \in Ids : reviews[i].fountain_id = f /\ reviews[i].status = "approved"}

RatedOf(f) == {i \in ApprovedOf(f) : reviews[i].rating # NullNum}

RECURSIVE SumOver(_)
SumOver(S) ==
  IF S = {} THEN 0
  ELSE LET i == CHOOSE x \in S : TRUE IN reviews[i].rating + SumOver(S \ {i})

Abs(x) == IF x < 0 THEN 0 - x ELSE x

\* C3 as stated: the overview's averageRating is exactly the arithmetic mean
\* of the overall rating over the approved reviews of the fountain (hundredths
\* on the left, tenths on the right).
C3_ExactMean ==
  \A f \in Fountains :
    (ApprovedOf(f) # {} /\ RatedOf(f) = ApprovedOf(f)) =>
      Overview(f).average_rating * Cardinality(ApprovedOf(f)) = 10 * SumOver(ApprovedOf(f))

\* C3 amended: averageRating is the mean over the approved reviews of the
\* fountain that carry a rating, rounded to the nearest hundredth, and null
\* when there is none; the two counts are the number of approved reviews and of
\* approved admin reviews (null under db/migrate_existing.sql when the fountain
\* has no approved review).
C3_RoundedMean ==
  \A f \in Fountains :
    LET o == Overview(f)
        n == Cardinality(RatedOf(f))
        admin == {i \in ApprovedOf(f) : reviews[i].author_type = "admin"}
    IN /\ n = 0 => o.average_rating = NullNum
       /\ n > 0 => 2 * Abs(o.average_rating * n - 10 * SumOver(RatedOf(f))) <= n
       /\ IF schema = "db" /\ ApprovedOf(f) = {}
          THEN o.approved_review_count = NullNum /\ o.admin_review_count = NullNum
          ELSE /\ o.approved_review_count = Cardinality(ApprovedOf(f))
               /\ o.admin_review_count = Cardinality(admin)

\* three approved ratings 1.0, 1.0, 2.0 of one fountain read 1.33, one of them
\* a public review an admin approved
C3_Witness ==
  \E f \in Fountains :
    /\ Cardinality(RatedOf(f)) = 3
    /\ Overview(f).average_rating = 133
    /\ \E i \in RatedOf(f) : reviews[i].author_type = "public"

\* C4: a review is approved only if a caller in the Admin Registry (or the
\* service-role backfill) inserted it approved or set it to approved.
C4_ApprovedOnlyByAdmin ==
  \A i \in Ids : reviews[i].status = "approved" => reviews[i].g_approver # "nonadmin"

\* C5: an insert by a caller who is not an admin whose payload carries an
\* instagram field is refused with a row-level-security error and stores no row.
C5_InstagramInsertForbidden ==
  (last.op = "insert" /\ ~last.admin /\ last.ig) =>
    (last.result = "rls_error" /\ ~last.stored)

\* C6: every stored review of author type public has the three instagram
\* columns empty.
C6_PublicHasNoInstagram ==
  \A i \in Ids : reviews[i].author_type = "public" => ~HasInstagram(reviews[i])

\* C7: every stored review of author type admin is approved and names the
\* moderating admin in approved_by.
C7_AdminReviewApproved ==
  \A i \in Ids :
    reviews[i].author_type = "admin" =>
      (reviews[i].status = "approved" /\ reviews[i].approved_by # NULL)

\* C8 as stated: a review is of author type admin exactly when its creator
\* was in the Admin Registry when it was created.
C8_AdminIffCreatorAdmin ==
  \A i \in Ids : reviews[i].author_type = "admin" <=> reviews[i].g_creator = "admin"

\* C8 amended: a review is of author type admin only if its creator was in the
\* Admin Registry when it was created or was the service-role backfill, and no
\* operation changes the author type of an existing review.
\* (every step leaves a store in which the first part holds; the store is
\* empty initially)
C8_AdminOnlyIfCreatorAdmin ==
  [][/\ \A i \in 1..Len(reviews') :
          reviews'[i].author_type = "admin" =>
            reviews'[i].g_creator \in {"admin", "service"}
     /\ \A i \in Ids : reviews'[i].author_type = reviews[i].author_type]_vars

\* an admin review made by an admin stands beside a public review an admin
\* has just moderated
C8_Witness ==
  /\ last.op = "update" /\ last.stored
  /\ reviews[last.rid].author_type = "public"
  /\ \E j \in Ids : reviews[j].author_type = "admin" /\ reviews[j].g_creator = "admin"

\* C9 as stated: a read of the reviews by a caller who is not an admin is
\* answered with an error.
C9_NonAdminReadForbidden ==
  (last.op = "select" /\ ~last.admin) => last.result # "ok"

\* C9 amended: a read by a caller who is not an admin succeeds and returns no
\* review that is pending or rejected; asked for the pending reviews it
\* returns none.
C9_NonAdminReadsOnlyApproved ==
  (last.op = "select" /\ ~last.admin) =>
    /\ last.result = "ok"
    /\ \A i \in last.rows : reviews[i].status = "approved"
    /\ last.status = "pending" => last.rows = {}

\* a caller who is not an admin asked for the pending reviews while one exists
C9_Witness ==
  /\ last.op = "select" /\ ~last.admin /\ last.status = "pending"
  /\ \E i \in Ids : reviews[i].status = "pending"

\* C10: a status update, or an insert of an admin review, by a caller who is
\* not in the Admin Registry is refused with an error and changes nothing.
C10_NonAdminDenied ==
  (/\ ~last.admin
   /\ last.op = "update" \/ (last.op = "insert" /\ last.author_type = "admin")) =>
    (last.result = "rls_error" /\ ~last.stored)

\* C11: public.admins changes only in a step that is an insert or a delete on
\* public.admins by a caller who was in the registry before the step; every
\* such request by a caller who was not leaves the registry as it was, and so
\* does every sign in, profile lookup and request on reviews.
C11_RegistryChangesOnlyByAdmin ==
  [][/\ admins' # admins =>
          /\ last'.op \in {"admins_insert", "admins_delete"}
          /\ last'.admin /\ last'.stored
     /\ (last'.op \in {"admins_insert", "admins_delete"} /\ ~last'.admin) =>
          (admins' = admins /\ ~last'.stored)]_vars

\* an authenticated user outside the registry asked to be added and was refused
C11_Witness ==
  /\ last.op = "admins_insert" /\ ~last.admin /\ ~last.anon
  /\ last.result = "rls_error"
  /\ \E u \in Users : u \notin admins
  /\ Len(reviews) = 1

\* C12: an insert by a caller who is not an admin is accepted exactly when the
\* payload carries no instagram field, proposes the status pending and the
\* author type public (a column left out proposes its default).
C12_PolicyMatchesEnforcement ==
  (last.op = "insert" /\ ~last.admin) =>
    (last.stored <=> /\ ~last.ig
                     /\ last.status \in {"pending", OMIT}
                     /\ last.author_type \in {"public", OMIT})

\* the profile lookups that resume in a step
Resumed == page.lookups \ page'.lookups

C14_ModerationRecorded ==
  (last.op = "update" /\ last.stored) =>
    /\ reviews[last.rid].reviewed_at # NullNum
    /\ reviews[last.rid].approved_by # NULL

C18_LatestTieBrokenByCreation ==
  \A f \in Fountains :
    \A i \in fountain_latest_review_view(f) :
      \A j \in ApprovedOf(f) :
        \/ LatestKey(reviews[j]) < LatestKey(reviews[i])
        \/ /\ LatestKey(reviews[j]) = LatestKey(reviews[i])
           /\ reviews[j].created_at <= reviews[i].created_at

C17_NoApprovedReadsNull ==
  \A f \in Fountains :
    ApprovedOf(f) = {} =>
      /\ Overview(f).average_rating = NullNum
      /\ buildProperties(Overview(f)).avg_rating = NullNum
      /\ buildProperties(Overview(f)).rating_count = 0

\* F1 has rated reviews, pending or rejected, but none approved, while F2 has
\* an approved one
C17_Witness ==
  /\ ApprovedOf("F1") = {} /\ ApprovedOf("F2") # {}
  /\ \E i \in Ids : /\ reviews[i].fountain_id = "F1"
                     /\ reviews[i].rating # NullNum
                     /\ reviews[i].status = "rejected"

\* C19: an insert that proposes a public pending review and is stored adds
\* exactly one review, of author type public and status pending, leaves every
\* existing review as it was, and leaves the overview and the latest approved
\* review of every fountain as they were.
C19_PublicCreateFrame ==
  [][(/\ last'.op = "insert" /\ last'.stored /\ last' # last
      /\ last'.author_type \in {"public", OMIT}
      /\ last'.status \in {"pending", OMIT}) =>
       /\ Len(reviews') = Len(reviews) + 1
       /\ reviews'[Len(reviews')].author_type = "public"
       /\ reviews'[Len(reviews')].status = "pending"
       /\ \A i \in Ids : reviews'[i] = reviews[i]
       /\ \A f \in Fountains :
            /\ Overview(f)' = Overview(f)
            /\ fountain_latest_review_view(f)' = fountain_latest_review_view(f)]_vars

\* a public review of F1 was just stored pending while F1 has an approved
\* review that the overview counts
C19_Witness ==
  /\ last.op = "insert" /\ last.stored /\ last.author_type = "public"
  /\ last.rid = Len(reviews) /\ last.rid > 1
  /\ reviews[last.rid].fountain_id = "F1"
  /\ reviews[last.rid].status = "pending"
  /\ Overview("F1").approved_review_count = 1

\* C20: once a transition to approved or rejected has committed, every read of
\* the fountain data by a page (fetchGeoData) that is answered with store data
\* returns the aggregates a fresh scan of the approved reviews gives at the
\* time of the read, however many reads the page made before.
C20_ReadsAreFresh ==
  [][(/\ geo'.seq # geo.seq
      /\ last.op = "update" /\ last.stored /\ last.status \in Decided
      /\ geo'.result # {}
      /\ \A g \in geo'.result : g.source = "supabase")
     => geo'.result = {loadFromSupabase}]_vars

\* The day a timestamp falls on (the clock counts half days).
DayOf(t) == t \div 2

\* C21: every rating that is present lies within the declared scale 1..10
\* (10..100 in tenths); an out-of-range value is rejected at creation.
C21_RatingsWithinScale ==
  \A i \in Ids :
    reviews[i].rating # NullNum =>
      (reviews[i].rating >= 10 /\ reviews[i].rating <= 100)

\* C22: every stored public review has a visit date that is not after the
\* day it was created and a non-null overall rating (a submission that lacks
\* either is rejected and stores nothing).
C22_PublicReviewValidated ==
  \A i \in Ids :
    reviews[i].author_type = "public" =>
      /\ reviews[i].visit_date # NullNum
      /\ reviews[i].visit_date <= DayOf(reviews[i].created_at)
      /\ reviews[i].rating # NullNum

\* C23: a review is stored only for a fountain that exists and is active at
\* the time of the creation; a creation for any other fountain id stores
\* nothing.
C23_CreatedForActiveFountain ==
  [][Len(reviews') > Len(reviews) =>
       /\ reviews'[Len(reviews')].fountain_id \in Fountains
       /\ \A f \in Fountains :
            reviews'[Len(reviews')].fountain_id = f => is_active[f]]_vars

\* C24: the overview read returns one row for every active fountain and no
\* row for an inactive one, ordered by name ascending, and an anonymous
\* caller reads a fountain only while it is active.
C24_OverviewIsActiveFountains ==
  /\ {fetchFountainOverview[i] : i \in DOMAIN fetchFountainOverview}
       = {f \in Fountains : is_active[f]}
  /\ \A i, j \in DOMAIN fetchFountainOverview :
       i < j => NameBefore(fetchFountainOverview[i], fetchFountainOverview[j])
  /\ SelectFountains(Anon) = {f \in Fountains : is_active[f]}

\* C28: for an anonymous caller, a submission that fails because the
\* fountain does not exist has the same observable outcome as one that fails
\* because the insert policy denied it.
C28_ProbeIndistinguishable ==
  \A p, q \in ProbePayloads :
    (/\ p.fountain_id = NoFountain
     /\ InsertRow(Anon, p).result = "constraint_error"
     /\ InsertRow(Anon, q).result = "rls_error")
    => SubmitOutcome(Anon, p) = SubmitOutcome(Anon, q)

\* C25: no create or transition operation removes a review: the reviews of
\* the store stay in it, each the same review as before, and a successful
\* rejection leaves its review in the store with status rejected.
C25_NoReviewRemoved ==
  [][/\ Len(reviews') >= Len(reviews)
     /\ \A i \in 1..Len(reviews) :
          /\ reviews'[i].fountain_id = reviews[i].fountain_id
          /\ reviews'[i].created_at = reviews[i].created_at
          /\ reviews'[i].g_creator = reviews[i].g_creator
     /\ (last'.op = "update" /\ last'.stored /\ last'.status = "rejected"
         /\ last' # last)
        => reviews'[last'.rid].status = "rejected"]_vars

C25_Witness ==
  /\ last.op = "update" /\ last.stored /\ last.status = "rejected"
  /\ Len(reviews) >= 2
  /\ reviews[last.rid].status = "rejected"

\* the columns a transition may not touch
FrameOf(r) ==
  [fountain_id |-> r.fountain_id, author_type |-> r.author_type,
   rating |-> r.rating, instagram_url |-> r.instagram_url,
   instagram_image_url |-> r.instagram_image_url,
   instagram_caption |-> r.instagram_caption, visit_date |-> r.visit_date,
   created_at |-> r.created_at, created_by |-> r.created_by]

\* C26: an existing review changes only by a transition that an admin makes
\* out of pending, and the transition changes nothing but the status, the
\* moderation timestamp and the moderating admin; no request of a caller who
\* is not an admin changes an existing review.
C26_MutatedOnlyByAdminTransition ==
  [][\A i \in 1..Len(reviews) :
       reviews'[i] # reviews[i] =>
         /\ last'.op = "update" /\ last'.admin /\ last'.rid = i
         /\ reviews[i].status = "pending"
         /\ FrameOf(reviews'[i]) = FrameOf(reviews[i])]_vars

\* C27: under db/schema.sql, an insert by an authenticated admin with
\* reviewer_type = 'admin' and no status column is stored approved and stays
\* reviewer_type = 'admin', with or without created_by.
C27_OmittedStatusApproved ==
  (/\ schema = "db"
   /\ last.op = "insert" /\ last.admin
   /\ last.author_type = "admin" /\ last.status = OMIT
   /\ last.stored)
  => /\ reviews[last.rid].status = "approved"
     /\ reviews[last.rid].author_type = "admin"

\* C29: the list of pending reviews an admin reads holds exactly the reviews
\* that are pending at the time of the read, each once, in ascending order of
\* their creation timestamps.
C29_PendingListExact ==
  \A a \in admins :
    /\ fetchReviewsByStatusList(a, "pending") # {}
    /\ \A q \in fetchReviewsByStatusList(a, "pending") :
         /\ {q[i] : i \in DOMAIN q} = {i \in Ids : reviews[i].status = "pending"}
         /\ Len(q) = Cardinality({i \in Ids : reviews[i].status = "pending"})
         /\ \A i, j \in DOMAIN q :
              i < j => reviews[q[i]].created_at <= reviews[q[j]].created_at

C29_Witness ==
  /\ Len(reviews) = 2
  /\ reviews[1].status = "pending" /\ reviews[2].status = "pending"
  /\ reviews[1].created_at < reviews[2].created_at
  /\ <<1, 2>> \in fetchReviewsByStatusList("u1", "pending")

\* C30: the count of approved reviews since the start of today is the number
\* of reviews approved today, by transition or by admin creation: a review
\* that is approved now (and was not before) raises the count by one. Stated
\* for the core schema, whose reviews table has the reviewed_at column.
C30_ApprovedTodayCounted ==
  [][\A i \in 1..Len(reviews') :
       (/\ schema = "core"
        /\ reviews'[i].status = "approved"
        /\ (i \in 1..Len(reviews) => reviews[i].status # "approved")
        /\ last'.op \in {"insert", "update"} /\ last'.rid = i /\ last'.admin)
       => countReviewsByStatus("u1", "approved", todayStart)'
            = countReviewsByStatus("u1", "approved", todayStart) + 1]_vars

\* C31: a profile lookup that resumes when the session applied last is not
\* the session of its user (the user signed out, or another user signed in)
\* neither sets state.isAdmin nor shows the admin content.
C31_NoLateLookupUnlocks ==
  [][\A u \in Resumed :
       page.session # u => (~page'.isAdmin /\ ~page'.content)]_vars

\* C32: for every fountain, as the pages read the overview (buildProperties),
\* the average rating is null exactly when the count of approved reviews is
\* 0, and the count of approved admin reviews is at most that count.
C32_AverageNullIffNoApproved ==
  \A f \in Fountains :
    LET props == buildProperties(Overview(f))
    IN /\ (props.avg_rating = NullNum <=> props.rating_count = 0)
       /\ props.admin_review_count <= props.rating_count

\* C33: a call of fetchGeoData made while the store can be read returns the
\* data read from the store's overview; the bundled geojson is returned only
\* by a call made while the store cannot be read.
C33_FallbackOnlyWhileUnreachable ==
  [][(geo'.seq # geo.seq /\ geo'.reach = "ok")
     => \A g \in geo'.result : g.source = "supabase"]_vars


====
